---- MODULE Spec2Model ----
(***************************************************************************)
(* Model of solver/factorio_solver.py: the default input enumeration       *)
(* (setup_inputs), the manual "key=cost" token parsers, the productivity   *)
(* research expansion and the assembly of the solver configuration in      *)
(* main.                                                                   *)
(*                                                                         *)
(* Text.  A Python string is a sequence of symbols.  A symbol is one of    *)
(* the characters "=", ".", "+", "-", "0".."9", or a word: a non-empty run *)
(* of other characters that contains no "=" and no digit, dot or sign on   *)
(* its own ("iron-ore", "notanumber").  str.split and float are computed   *)
(* on the symbols.  Str joins the symbols back into the Python string.     *)
(*                                                                         *)
(* Numbers.  A float is <<m, e>>, the decimal m / 10^e with no trailing    *)
(* zero in the fraction, so that "1", "1." and "1.0" are one value.        *)
(*                                                                         *)
(* None is <<>> and a value v that may be None is <<v>>.                   *)
(***************************************************************************)
EXTENDS Integers, Sequences, FiniteSets, TLC

VARIABLES FACTORIO_DATA,          \* the dataset loaded at import (lines 17-20)
          args,                   \* the parsed arguments, or a function's arguments
          pc,                     \* position in main, or "call" / "returned"
          inputs,                 \* main's local `inputs`, None until assigned
          productivity_research,  \* main's local, None until assigned
          config,                 \* main's local `config`, None until assembled
          solver_calls,           \* calls of run_solver_from_command_line so far
          solver_config,          \* the configuration the solver received
          error,                  \* the exception that ended main, or None
          trace,                  \* the repository functions main has called
          ret                     \* outcome of the function under call

vars == <<FACTORIO_DATA, args, pc, inputs, productivity_research, config,
          solver_calls, solver_config, error, trace, ret>>

(***************************************************************************)
(* Bounds of the model.                                                    *)
(***************************************************************************)
MaxTokens == 2

MaxPlanets == 2

(***************************************************************************)
(* Python values.                                                          *)
(***************************************************************************)
None == <<>>

Some(v) == <<v>>

Return(v) == [ok |-> TRUE, value |-> v]

Raise(exc, why, text) == [ok |-> FALSE, exc |-> exc, why |-> why, text |-> text]

\* Truth value of an optional string: None and "" are false.
TruthyStr(o) == o # None /\ o[1] # ""

\* Truth value of an optional list: None and [] are false.
TruthyList(o) == o # None /\ o[1] # <<>>

\* Python's `a or b` on an optional string a and a string b.
Or(a, b) == IF TruthyStr(a) THEN a[1] ELSE b

BoundedSeq(S, n) == UNION {[1..k -> S] : k \in 0..n}

RECURSIVE Str(_)
Str(symbols) == IF symbols = <<>> THEN "" ELSE Head(symbols) \o Str(Tail(symbols))

(***************************************************************************)
(* str.split(sep): the segments between the separators, in order; a string *)
(* with k separators has k + 1 segments, some of them possibly empty.      *)
(***************************************************************************)
RECURSIVE split_loop(_, _, _, _)
split_loop(rest, sep, done, current) ==
    IF rest = <<>> THEN Append(done, current)
    ELSE IF Head(rest) = sep
         THEN split_loop(Tail(rest), sep, Append(done, current), <<>>)
         ELSE split_loop(Tail(rest), sep, done, Append(current, Head(rest)))

split(s, sep) == split_loop(s, sep, <<>>, <<>>)

(***************************************************************************)
(* float(str): an optional sign, then digits with at most one dot and at   *)
(* least one digit; anything else raises ValueError carrying the string.   *)
(***************************************************************************)
Digits == {"0", "1", "2", "3", "4", "5", "6", "7", "8", "9"}

DigitVal == ("0" :> 0) @@ ("1" :> 1) @@ ("2" :> 2) @@ ("3" :> 3) @@ ("4" :> 4) @@
            ("5" :> 5) @@ ("6" :> 6) @@ ("7" :> 7) @@ ("8" :> 8) @@ ("9" :> 9)

RECURSIVE Mantissa(_, _)
Mantissa(s, acc) ==
    IF s = <<>> THEN acc
    ELSE IF Head(s) = "." THEN Mantissa(Tail(s), acc)
         ELSE Mantissa(Tail(s), 10 * acc + DigitVal[Head(s)])

RECURSIVE Normal(_, _)
Normal(m, e) == IF e > 0 /\ m % 10 = 0 THEN Normal(m \div 10, e - 1) ELSE <<m, e>>

float(s) ==
    LET signed == s # <<>> /\ Head(s) \in {"+", "-"}
        body   == IF signed THEN Tail(s) ELSE s
        dots   == {i \in DOMAIN body : body[i] = "."}
        wellformed == /\ \A i \in DOMAIN body : body[i] \in Digits \cup {"."}
                      /\ \E i \in DOMAIN body : body[i] \in Digits
                      /\ Cardinality(dots) <= 1
        scale  == IF dots = {} THEN 0 ELSE Len(body) - (CHOOSE i \in dots : TRUE)
        abs    == Normal(Mantissa(body, 0), scale)
    IN IF ~wellformed THEN Raise("ValueError", "float", s)
       ELSE Return(IF signed /\ Head(s) = "-" THEN <<0 - abs[1], abs[2]>> ELSE abs)

(***************************************************************************)
(* `a, b = parts`: unpacking into two names raises ValueError unless there *)
(* are exactly two parts; the error carries the counts, not the parts.     *)
(***************************************************************************)
\* Variant: the first two parts are taken and the rest dropped.
unpack2_first_two(parts) ==
    IF Len(parts) >= 2 THEN Return(SubSeq(parts, 1, 2))
    ELSE Raise("ValueError", "unpack", <<>>)

unpack2(parts) ==
    IF Len(parts) = 2 THEN Return(parts)
    ELSE Raise("ValueError", "unpack", <<>>)

(***************************************************************************)
(* parse_input_list and parse_resources_list.                              *)
(***************************************************************************)
RECURSIVE parse_input_list_loop(_, _, _)
parse_input_list_loop(items, input_quality, acc) ==
    IF items = <<>> THEN Return(acc)
    ELSE LET item  == Head(items)
             parts == unpack2(split(item, "="))
         IN IF ~parts.ok THEN parts
            ELSE LET item_key  == parts.value[1]
                     item_cost == float(parts.value[2])
                 IN IF ~item_cost.ok THEN item_cost
                    ELSE parse_input_list_loop(Tail(items), input_quality,
                            Append(acc, [key      |-> Str(item_key),
                                         quality  |-> input_quality,
                                         resource |-> FALSE,
                                         cost     |-> item_cost.value]))

\* Variant: the caller's input quality is ignored.
parse_input_list_normal(items, input_quality) == parse_input_list_loop(items, "normal", <<>>)

parse_input_list(items, input_quality) == parse_input_list_loop(items, input_quality, <<>>)

RECURSIVE parse_resources_list_loop(_, _)
parse_resources_list_loop(items, acc) ==
    IF items = <<>> THEN Return(acc)
    ELSE LET item  == Head(items)
             parts == unpack2(split(item, "="))
         IN IF ~parts.ok THEN parts
            ELSE LET item_key  == parts.value[1]
                     item_cost == float(parts.value[2])
                 IN IF ~item_cost.ok THEN item_cost
                    ELSE parse_resources_list_loop(Tail(items),
                            Append(acc, [key      |-> Str(item_key),
                                         quality  |-> "normal",
                                         resource |-> TRUE,
                                         cost     |-> item_cost.value]))

parse_resources_list(items) == parse_resources_list_loop(items, <<>>)

(***************************************************************************)
(* parse_productivity_research_list over the fixed table.  A dict is a     *)
(* function from its keys; d[k] = v adds or overwrites one key.            *)
(***************************************************************************)
RESEARCH_PRODUCTIVITY_ITEM_RECIPE_MAP ==
    [k \in {"steel-plate", "low-density-structure", "scrap", "processing-unit",
            "plastic-bar", "rocket-fuel", "asteroid"} |->
        CASE k = "steel-plate" -> <<"steel-plate", "casting-steel">>
          [] k = "low-density-structure" ->
                <<"low-density-structure", "casting-low-density-structure">>
          [] k = "scrap" -> <<"scrap-recycling">>
          [] k = "processing-unit" -> <<"processing-unit">>
          [] k = "plastic-bar" -> <<"plastic-bar">>
          [] k = "rocket-fuel" ->
                <<"rocket-fuel", "rocket-fuel-from-jelly", "ammonia-rocket-fuel">>
          [] k = "asteroid" ->
                <<"carbonic-asteroid-crushing", "metallic-asteroid-crushing",
                  "oxide-asteroid-crushing", "advanced-carbonic-asteroid-crushing",
                  "advanced-metallic-asteroid-crushing",
                  "advanced-oxide-asteroid-crushing">>]

\* Variant: dict.setdefault, a key already present keeps its value.
DictSetDefault(d, k, v) == [x \in DOMAIN d \cup {k} |-> IF x \in DOMAIN d THEN d[x] ELSE v]

DictSet(d, k, v) == [x \in DOMAIN d \cup {k} |-> IF x = k THEN v ELSE d[x]]

EmptyDict == [x \in {} |-> 0]

\* Lines 115-117: every recipe key of the item receives float(item_prod_str).
RECURSIVE research_recipe_loop(_, _, _)
research_recipe_loop(recipe_keys, item_prod_str, acc) ==
    IF recipe_keys = <<>> THEN Return(acc)
    ELSE LET item_prod == float(item_prod_str)
         IN IF ~item_prod.ok THEN item_prod
            ELSE research_recipe_loop(Tail(recipe_keys), item_prod_str,
                    DictSet(acc, Head(recipe_keys), item_prod.value))

RECURSIVE parse_productivity_research_loop(_, _)
parse_productivity_research_loop(items, acc) ==
    IF items = <<>> THEN Return(acc)
    ELSE LET item  == Head(items)
             parts == unpack2(split(item, "="))
         IN IF ~parts.ok THEN parts
            ELSE LET item_key      == Str(parts.value[1])
                     item_prod_str == parts.value[2]
                 IN IF item_key \notin DOMAIN RESEARCH_PRODUCTIVITY_ITEM_RECIPE_MAP
                    THEN Raise("KeyError", "lookup", parts.value[1])
                    ELSE LET updated == research_recipe_loop(
                                 RESEARCH_PRODUCTIVITY_ITEM_RECIPE_MAP[item_key],
                                 item_prod_str, acc)
                         IN IF ~updated.ok THEN updated
                            ELSE parse_productivity_research_loop(Tail(items),
                                                                  updated.value)

parse_productivity_research_list(items) ==
    parse_productivity_research_loop(items, EmptyDict)

(***************************************************************************)
(* setup_inputs: the default enumeration over FACTORIO_DATA.               *)
(***************************************************************************)
\* Variant: the resource flag is dropped.
InputSpecUnflagged(key, quality, resource, cost) ==
    [key |-> key, quality |-> quality, resource |-> FALSE, cost |-> cost]

InputSpec(key, quality, resource, cost) ==
    [key |-> key, quality |-> quality, resource |-> resource, cost |-> cost]

RECURSIVE offshore_loop(_, _, _)
offshore_loop(keys, offshore_cost, acc) ==
    IF keys = <<>> THEN acc
    ELSE offshore_loop(Tail(keys), offshore_cost,
            Append(acc, InputSpec(Head(keys), "normal", FALSE, offshore_cost)))

RECURSIVE results_loop(_, _, _)
results_loop(results, farming_cost, acc) ==
    IF results = <<>> THEN acc
    ELSE results_loop(Tail(results), farming_cost,
            Append(acc, InputSpec(Head(results).name, "normal", FALSE, farming_cost)))

\* Line 62: the first plant record of the dataset with this key; IndexError if none.
plant_info(data, plant) ==
    LET matching == SelectSeq(data.plants, LAMBDA p : p.key = plant)
    IN IF matching = <<>> THEN Raise("IndexError", "index", <<>>)
       ELSE Return(matching[1])

RECURSIVE plants_loop(_, _, _, _)
plants_loop(data, plants, farming_cost, acc) ==
    IF plants = <<>> THEN Return(acc)
    ELSE LET info == plant_info(data, Head(plants))
         IN IF ~info.ok THEN info
            ELSE plants_loop(data, Tail(plants), farming_cost,
                    results_loop(info.value.results, farming_cost, acc))

RECURSIVE resource_loop(_, _, _)
resource_loop(keys, resource_cost, acc) ==
    IF keys = <<>> THEN acc
    ELSE resource_loop(Tail(keys), resource_cost,
            Append(acc, InputSpec(Head(keys), "normal", TRUE, resource_cost)))

RECURSIVE planets_loop(_, _, _, _, _, _)
planets_loop(data, planets, resource_cost, farming_cost, offshore_cost, acc) ==
    IF planets = <<>> THEN Return(acc)
    ELSE LET planet       == Head(planets)
             withOffshore == offshore_loop(planet.resources.offshore, offshore_cost, acc)
             withPlants   == plants_loop(data, planet.resources.plants, farming_cost,
                                         withOffshore)
         IN IF ~withPlants.ok THEN withPlants
            ELSE planets_loop(data, Tail(planets), resource_cost, farming_cost,
                    offshore_cost,
                    resource_loop(planet.resources.resource, resource_cost,
                                  withPlants.value))

\* Variant: the resource cost and the offshore cost change places.
setup_inputs_swapped(data, resource_cost, farming_cost, offshore_cost) ==
    planets_loop(data, data.planets, offshore_cost, farming_cost, resource_cost, <<>>)

setup_inputs(data, resource_cost, farming_cost, offshore_cost) ==
    planets_loop(data, data.planets, resource_cost, farming_cost, offshore_cost, <<>>)

(***************************************************************************)
(* main, lines 161-202, after argparse has produced args.                  *)
(***************************************************************************)
\* Variant: an empty list counts as not supplied.
use_default_inputs_truthy(a) ==
    ~TruthyList(a.input_items) /\ ~TruthyList(a.input_resources)

\* Line 161.
use_default_inputs(a) == a.input_items = None /\ a.input_resources = None

\* Lines 161-170: the outcome of the input selection and the functions it called.
select_inputs(data, a) ==
    IF use_default_inputs(a)
    THEN [outcome |-> setup_inputs(data, a.resource_cost, a.farming_cost, a.offshore_cost),
          calls   |-> <<"setup_inputs">>]
    ELSE LET input_items == IF a.input_items # None
                            THEN parse_input_list(a.input_items[1], a.input_quality)
                            ELSE Return(<<>>)
             itemCalls   == IF a.input_items # None THEN <<"parse_input_list">> ELSE <<>>
         IN IF ~input_items.ok THEN [outcome |-> input_items, calls |-> itemCalls]
            ELSE IF a.input_resources = None
                 THEN [outcome |-> input_items, calls |-> itemCalls]
                 ELSE LET input_resources == parse_resources_list(a.input_resources[1])
                          calls == Append(itemCalls, "parse_resources_list")
                      IN IF ~input_resources.ok
                         THEN [outcome |-> input_resources, calls |-> calls]
                         ELSE [outcome |-> Return(input_items.value \o input_resources.value),
                               calls   |-> calls]

\* Variant: a failed expansion is swallowed and no research is applied.
expand_research_lenient(a) ==
    IF TruthyList(a.productivity_research)
    THEN LET r == parse_productivity_research_list(a.productivity_research[1])
         IN [outcome |-> IF r.ok THEN r ELSE Return(EmptyDict),
             calls   |-> <<"parse_productivity_research_list">>]
    ELSE [outcome |-> Return(EmptyDict), calls |-> <<>>]

\* Line 172.
expand_research(a) ==
    IF TruthyList(a.productivity_research)
    THEN [outcome |-> parse_productivity_research_list(a.productivity_research[1]),
          calls   |-> <<"parse_productivity_research_list">>]
    ELSE [outcome |-> Return(EmptyDict), calls |-> <<>>]

\* `x if x else None` of lines 188-191.
OrNone(x) == IF TruthyList(x) THEN x ELSE None

\* Lines 174-200.
assemble_config(a, ins, research) ==
    [quality_module_tier    |-> a.quality_module_tier,
     quality_module_quality |-> Or(a.quality_module_quality, a.module_quality),
     prod_module_tier       |-> a.prod_module_tier,
     prod_module_quality    |-> Or(a.prod_module_quality, a.module_quality),
     check_speed_modules    |-> a.check_speed_modules,
     speed_module_tier      |-> a.speed_module_tier,
     speed_module_quality   |-> Or(a.speed_module_quality, a.module_quality),
     building_quality       |-> a.building_quality,
     max_quality_unlocked   |-> a.max_quality_unlocked,
     productivity_research  |-> research,
     allow_byproducts       |-> a.allow_byproducts,
     module_cost            |-> a.module_cost,
     building_cost          |-> a.building_cost,
     allowed_recipes        |-> OrNone(a.allowed_recipes),
     disallowed_recipes     |-> OrNone(a.disallowed_recipes),
     allowed_crafting_machines    |-> OrNone(a.allowed_crafting_machines),
     disallowed_crafting_machines |-> OrNone(a.disallowed_crafting_machines),
     inputs                 |-> ins,
     outputs                |-> << [key     |-> a.output_item,
                                    quality |-> a.output_quality,
                                    amount  |-> a.output_amount] >>]

SelectInputs ==
    /\ pc = "select_inputs"
    /\ LET r == select_inputs(FACTORIO_DATA, args)
       IN /\ trace' = trace \o r.calls
          /\ IF r.outcome.ok
             THEN /\ inputs' = Some(r.outcome.value)
                  /\ pc' = "expand_research"
                  /\ error' = error
             ELSE /\ inputs' = inputs
                  /\ pc' = "raised"
                  /\ error' = Some(r.outcome)
    /\ UNCHANGED <<FACTORIO_DATA, args, productivity_research, config, solver_calls,
                   solver_config, ret>>

ExpandResearch ==
    /\ pc = "expand_research"
    /\ LET r == expand_research(args)
       IN /\ trace' = trace \o r.calls
          /\ IF r.outcome.ok
             THEN /\ productivity_research' = Some(r.outcome.value)
                  /\ pc' = "assemble_config"
                  /\ error' = error
             ELSE /\ productivity_research' = productivity_research
                  /\ pc' = "raised"
                  /\ error' = Some(r.outcome)
    /\ UNCHANGED <<FACTORIO_DATA, args, inputs, config, solver_calls, solver_config, ret>>

AssembleConfig ==
    /\ pc = "assemble_config"
    /\ config' = Some(assemble_config(args, inputs[1], productivity_research[1]))
    /\ pc' = "run_solver"
    /\ UNCHANGED <<FACTORIO_DATA, args, inputs, productivity_research, solver_calls,
                   solver_config, error, trace, ret>>

\* Variant: the solver is run a second time.
RunSolverAgain ==
    /\ pc = "run_solver"
    /\ solver_calls' = solver_calls + 1
    /\ solver_config' = config
    /\ trace' = Append(trace, "run_solver_from_command_line")
    /\ pc' = IF solver_calls = 0 THEN "run_solver" ELSE "done"
    /\ UNCHANGED <<FACTORIO_DATA, args, inputs, productivity_research, config, error, ret>>

\* Line 202: the external solver is called with the configuration and the dataset.
RunSolver ==
    /\ pc = "run_solver"
    /\ solver_calls' = solver_calls + 1
    /\ solver_config' = config
    /\ trace' = Append(trace, "run_solver_from_command_line")
    /\ pc' = "done"
    /\ UNCHANGED <<FACTORIO_DATA, args, inputs, productivity_research, config, error, ret>>

(***************************************************************************)
(* Inputs of the model: datasets, cost parameters and argument tokens.     *)
(***************************************************************************)
Planet(key, offshore, plants, resource) ==
    [key |-> key,
     resources |-> [offshore |-> offshore, plants |-> plants, resource |-> resource]]

Plant(key, names) == [key |-> key, results |-> [i \in DOMAIN names |-> [name |-> names[i]]]]

PlanetPool ==
    { Planet("nauvis", <<"water">>, <<"tree-plant">>, <<"iron-ore", "coal">>),
      Planet("vulcanus", <<"lava">>, <<>>, <<"coal", "tungsten-ore">>),
      Planet("gleba", <<"water">>, <<"yumako-tree", "jellystem">>, <<"stone">>),
      Planet("orchard", <<>>, <<"tree-plant", "tree-plant">>, <<>>),
      Planet("platform", <<>>, <<>>, <<>>) }

\* Every plant a planet names is defined, as in the shipped dataset.
PlantsPool ==
    { << Plant("tree-plant", <<"wood">>), Plant("yumako-tree", <<"yumako">>),
         Plant("jellystem", <<"jelly">>) >>,
      << Plant("tree-plant", <<"wood">>), Plant("yumako-tree", <<"yumako", "yumako-seed">>),
         Plant("jellystem", <<"jelly", "yumako">>) >>,
      << Plant("jellystem", <<>>), Plant("tree-plant", <<"wood", "wood">>),
         Plant("yumako-tree", <<"yumako">>), Plant("tree-plant", <<"wood">>) >> }

Datasets ==
    { [planets |-> ps, plants |-> pl] : ps \in BoundedSeq(PlanetPool, MaxPlanets),
                                        pl \in PlantsPool }

\* (resource_cost, farming_cost, offshore_cost); the first is the defaults 1.0, 1.0, 0.1.
CostPool == { << <<1, 0>>, <<1, 0>>, <<1, 1>> >>,
              << <<2, 0>>, <<3, 0>>, <<5, 0>> >>,
              << <<0, 0>>, <<0, 0>>, <<0, 0>> >> }

InputTokens ==
    { <<"copper-plate", "=", "2", ".", "5">>,
      <<"copper-plate", "=", "1">>,
      <<"iron-ore", "=", "1", ".", "0">>,
      <<"iron-ore", "=", "-", "1">>,
      <<"=", "3">>,
      <<"bad-token">>,
      <<"key", "=", "notanumber">>,
      <<"iron-ore", "=", "1", "=", "2">>,
      <<"iron-ore", "=">>,
      <<>> }

ResearchTokens ==
    { <<"steel-plate", "=", "0", ".", "5">>,
      <<"steel-plate", "=", "1">>,
      <<"scrap", "=", "3">>,
      <<"rocket-fuel", "=", "0", ".", "1">>,
      <<"unobtainium", "=", "0", ".", "3">>,
      <<"unobtainium", "=", "x">>,
      <<"unobtainium">>,
      <<"steel-plate", "=", "x">>,
      <<"steel-plate">>,
      <<"scrap", "=", "1", "=", "2">> }

Qualities == {"normal", "rare"}

(***************************************************************************)
(* The functions called on their own.                                      *)
(***************************************************************************)
Idle ==
    /\ inputs = None
    /\ productivity_research = None
    /\ config = None
    /\ solver_calls = 0
    /\ solver_config = None
    /\ error = None
    /\ trace = <<>>
    /\ ret = None

DefaultData == [planets |-> <<>>, plants |-> <<>>]

CallSetupInputs ==
    /\ pc = "call"
    /\ args.fn = "setup_inputs"
    /\ ret' = Some(setup_inputs(FACTORIO_DATA, args.resource_cost, args.farming_cost,
                                args.offshore_cost))
    /\ pc' = "returned"
    /\ UNCHANGED <<FACTORIO_DATA, args, inputs, productivity_research, config,
                   solver_calls, solver_config, error, trace>>

InitSetup ==
    /\ FACTORIO_DATA \in Datasets
    /\ \E c \in CostPool :
          args = [fn |-> "setup_inputs", resource_cost |-> c[1], farming_cost |-> c[2],
                  offshore_cost |-> c[3]]
    /\ pc = "call"
    /\ Idle

SpecSetup == InitSetup /\ [][CallSetupInputs]_vars

CallParseInputList ==
    /\ pc = "call"
    /\ args.fn = "parse_input_list"
    /\ ret' = Some(parse_input_list(args.items, args.input_quality))
    /\ pc' = "returned"
    /\ UNCHANGED <<FACTORIO_DATA, args, inputs, productivity_research, config,
                   solver_calls, solver_config, error, trace>>

CallParseResourcesList ==
    /\ pc = "call"
    /\ args.fn = "parse_resources_list"
    /\ ret' = Some(parse_resources_list(args.items))
    /\ pc' = "returned"
    /\ UNCHANGED <<FACTORIO_DATA, args, inputs, productivity_research, config,
                   solver_calls, solver_config, error, trace>>

\* input_quality is the caller's; only parse_input_list receives it.
InitParse ==
    /\ FACTORIO_DATA = DefaultData
    /\ args \in [fn : {"parse_input_list", "parse_resources_list"},
                 items : BoundedSeq(InputTokens, MaxTokens),
                 input_quality : Qualities]
    /\ pc = "call"
    /\ Idle

NextParse == CallParseInputList \/ CallParseResourcesList

SpecParse == InitParse /\ [][NextParse]_vars

CallParseProductivityResearchList ==
    /\ pc = "call"
    /\ args.fn = "parse_productivity_research_list"
    /\ ret' = Some(parse_productivity_research_list(args.items))
    /\ pc' = "returned"
    /\ UNCHANGED <<FACTORIO_DATA, args, inputs, productivity_research, config,
                   solver_calls, solver_config, error, trace>>

InitResearch ==
    /\ FACTORIO_DATA = DefaultData
    /\ args \in [fn : {"parse_productivity_research_list"},
                 items : BoundedSeq(ResearchTokens, MaxTokens)]
    /\ pc = "call"
    /\ Idle

SpecResearch == InitResearch /\ [][CallParseProductivityResearchList]_vars

(***************************************************************************)
(* main as a whole: args as argparse hands them over (lines 129-159).      *)
(***************************************************************************)
Tok(key, cost) == <<key, "=">> \o cost

ItemArgs ==
    { None,
      Some(<<>>),
      Some(<< Tok("copper-plate", <<"2", ".", "5">>) >>),
      Some(<< Tok("copper-plate", <<"2", ".", "5">>), Tok("copper-plate", <<"1">>) >>),
      Some(<< Tok("copper-plate", <<"1">>), <<"bad-token">> >>) }

ResourceArgs ==
    { None,
      Some(<<>>),
      Some(<< Tok("iron-ore", <<"1", ".", "0">>) >>),
      Some(<< Tok("iron-ore", <<"1", ".", "0">>), Tok("stone", <<"2">>) >>),
      Some(<< Tok("key", <<"notanumber">>) >>) }

\* nargs='+': a supplied research list has at least one token.
ResearchArgs ==
    { None,
      Some(<< Tok("steel-plate", <<"0", ".", "5">>) >>),
      Some(<< Tok("steel-plate", <<"0", ".", "5">>), Tok("scrap", <<"1">>) >>),
      Some(<< Tok("steel-plate", <<"0", ".", "5">>), Tok("unobtainium", <<"0", ".", "3">>) >>),
      Some(<< Tok("steel-plate", <<"x">>), Tok("unobtainium", <<"0", ".", "3">>) >>),
      Some(<< <<"unobtainium">> >>) }

QualityOverrides == {None, Some(""), Some("epic")}

MainDatasets ==
    { [planets |-> << Planet("nauvis", <<"water">>, <<"tree-plant">>, <<"iron-ore", "coal">>),
                      Planet("vulcanus", <<"lava">>, <<>>, <<"coal", "tungsten-ore">>) >>,
       plants  |-> << Plant("tree-plant", <<"wood">>) >>],
      [planets |-> << Planet("gleba", <<"water">>, <<"yumako-tree", "jellystem">>, <<"stone">>) >>,
       plants  |-> << Plant("yumako-tree", <<"yumako">>), Plant("jellystem", <<"jelly">>) >>] }

\* The arguments the model does not vary, at their defaults.
DefaultArgs ==
    [output_item |-> "electronic-circuit", output_amount |-> <<1, 0>>,
     output_quality |-> "legendary", prod_module_tier |-> 3, quality_module_tier |-> 3,
     check_speed_modules |-> FALSE, speed_module_tier |-> 3,
     building_quality |-> "legendary", max_quality_unlocked |-> "legendary",
     allow_byproducts |-> FALSE, allowed_recipes |-> None, disallowed_recipes |-> None,
     allowed_crafting_machines |-> None, disallowed_crafting_machines |-> None,
     module_cost |-> <<1, 0>>, building_cost |-> <<1, 0>>]

Init ==
    /\ FACTORIO_DATA \in MainDatasets
    /\ \E ii \in ItemArgs, ir \in ResourceArgs, pr \in ResearchArgs, iq \in Qualities,
          q \in {"legendary", "rare"}, pq \in QualityOverrides, qq \in QualityOverrides,
          sq \in QualityOverrides, c \in CostPool :
          args = [input_items |-> ii, input_resources |-> ir, productivity_research |-> pr,
                  input_quality |-> iq, module_quality |-> q, prod_module_quality |-> pq,
                  quality_module_quality |-> qq, speed_module_quality |-> sq,
                  resource_cost |-> c[1], farming_cost |-> c[2], offshore_cost |-> c[3]]
                 @@ DefaultArgs
    /\ pc = "select_inputs"
    /\ Idle

Next == SelectInputs \/ ExpandResearch \/ AssembleConfig \/ RunSolver

Spec == Init /\ [][Next]_vars

(***************************************************************************)
(* Properties of the manual parsers (SpecParse).                           *)
(***************************************************************************)
Range(f) == {f[i] : i \in DOMAIN f}

SepPositions(tok) == {i \in DOMAIN tok : tok[i] = "="}

KeySegment(tok) == SubSeq(tok, 1, (CHOOSE i \in SepPositions(tok) : TRUE) - 1)

ValueSegment(tok) == SubSeq(tok, (CHOOSE i \in SepPositions(tok) : TRUE) + 1, Len(tok))

\* A token "key=cost" with exactly one separator and a numeric cost.
WellFormedInput(tok) ==
    /\ Cardinality(SepPositions(tok)) = 1
    /\ float(ValueSegment(tok)).ok

Returned == pc = "returned" /\ ret # None

\* C5: when any token of the list lacks exactly one '=' or has a cost that is not
\* a number, each manual parser raises a format error (ValueError) and returns no
\* list, whatever well-formed tokens precede the malformed one.
C5_MalformedTokenFails ==
    (Returned /\ \E i \in DOMAIN args.items : ~WellFormedInput(args.items[i]))
        => (~ret[1].ok /\ ret[1].exc = "ValueError" /\ DOMAIN ret[1] = {"ok", "exc", "why", "text"})

C5_Witness ==
    /\ Returned
    /\ Len(args.items) = 2
    /\ WellFormedInput(args.items[1])
    /\ Cardinality(SepPositions(args.items[2])) = 2
    /\ ~ret[1].ok

\* C7: for well-formed tokens each parser returns one entry per token, in token
\* order, repeated keys kept; parse_input_list gives every entry the caller's
\* input quality and resource = FALSE, parse_resources_list gives quality normal
\* and resource = TRUE whatever the caller's input quality.
C7_OneEntryPerToken ==
    (Returned /\ \A i \in DOMAIN args.items : WellFormedInput(args.items[i]))
        => /\ ret[1].ok
           /\ Len(ret[1].value) = Len(args.items)
           /\ \A i \in DOMAIN args.items :
                 /\ ret[1].value[i].key = Str(KeySegment(args.items[i]))
                 /\ ret[1].value[i].cost = float(ValueSegment(args.items[i])).value
                 /\ args.fn = "parse_input_list" =>
                        /\ ret[1].value[i].quality = args.input_quality
                        /\ ret[1].value[i].resource = FALSE
                 /\ args.fn = "parse_resources_list" =>
                        /\ ret[1].value[i].quality = "normal"
                        /\ ret[1].value[i].resource = TRUE

C7_Witness ==
    /\ Returned
    /\ args.fn = "parse_input_list"
    /\ args.input_quality = "rare"
    /\ Len(args.items) = 2
    /\ \A i \in DOMAIN args.items : WellFormedInput(args.items[i])
    /\ KeySegment(args.items[1]) = KeySegment(args.items[2])
    /\ ret[1].ok
    /\ Len(ret[1].value) = 2
    /\ ret[1].value[1].key = ret[1].value[2].key
    /\ ret[1].value[1].cost # ret[1].value[2].cost

FirstMalformed(items) ==
    items[CHOOSE i \in DOMAIN items :
             /\ ~WellFormedInput(items[i])
             /\ \A j \in 1..(i - 1) : WellFormedInput(items[j])]

\* C9: the format error raised for a malformed manual-input token carries the
\* full offending token, for both parsers.
C9_ErrorNamesToken ==
    (Returned /\ ~ret[1].ok) => ret[1].text = FirstMalformed(args.items)

(***************************************************************************)
(* Properties of the research expansion (SpecResearch).                    *)
(***************************************************************************)
ResearchItem(tok) == Str(KeySegment(tok))

\* A token "item=level" with one separator, an item of the table and a numeric level.
WellFormedResearch(tok) ==
    /\ Cardinality(SepPositions(tok)) = 1
    /\ ResearchItem(tok) \in DOMAIN RESEARCH_PRODUCTIVITY_ITEM_RECIPE_MAP
    /\ float(ValueSegment(tok)).ok

RecipeKeysOf(tok) == Range(RESEARCH_PRODUCTIVITY_ITEM_RECIPE_MAP[ResearchItem(tok)])

\* The last token, in sequence order, whose item's recipe keys contain recipe_key.
LastTokenFor(items, recipe_key) ==
    items[CHOOSE i \in DOMAIN items :
             /\ recipe_key \in RecipeKeysOf(items[i])
             /\ \A j \in (i + 1)..Len(items) : recipe_key \notin RecipeKeysOf(items[j])]

\* C3: for "item=level" tokens whose items are all in the table,
\* parse_productivity_research_list returns a mapping whose keys are exactly the
\* union of the tokens' recipe-key lists, each carrying the level of the last
\* token whose item's list contains it; no tokens give the empty mapping.
C3_ResearchExpansion ==
    (Returned /\ \A i \in DOMAIN args.items : WellFormedResearch(args.items[i]))
        => /\ ret[1].ok
           /\ DOMAIN ret[1].value = UNION {RecipeKeysOf(args.items[i]) : i \in DOMAIN args.items}
           /\ \A recipe_key \in DOMAIN ret[1].value :
                 ret[1].value[recipe_key] =
                    float(ValueSegment(LastTokenFor(args.items, recipe_key))).value
           /\ args.items = <<>> => DOMAIN ret[1].value = {}

C3_Witness ==
    /\ Returned
    /\ Len(args.items) = 2
    /\ \A i \in DOMAIN args.items : WellFormedResearch(args.items[i])
    /\ ResearchItem(args.items[1]) = "steel-plate"
    /\ ResearchItem(args.items[2]) = "steel-plate"
    /\ float(ValueSegment(args.items[1])).value # float(ValueSegment(args.items[2])).value
    /\ ret[1].ok
    /\ ret[1].value["casting-steel"] = float(ValueSegment(args.items[2])).value

(***************************************************************************)
(* Properties of the default enumeration (SpecSetup).                      *)
(***************************************************************************)
RECURSIVE SumSeq(_)
SumSeq(ns) == IF ns = <<>> THEN 0 ELSE Head(ns) + SumSeq(Tail(ns))

\* The results of the first plant record of the dataset that has this key.
ResultsOf(data, plant) ==
    LET first == CHOOSE i \in DOMAIN data.plants :
                    /\ data.plants[i].key = plant
                    /\ \A j \in 1..(i - 1) : data.plants[j].key # plant
    IN data.plants[first].results

\* Result names of a planet, one per plant reference and result entry, in order.
RECURSIVE PlantResultNames(_, _)
PlantResultNames(data, plants) ==
    IF plants = <<>> THEN <<>>
    ELSE [i \in DOMAIN ResultsOf(data, Head(plants)) |-> ResultsOf(data, Head(plants))[i].name]
         \o PlantResultNames(data, Tail(plants))

\* What a planet contributes: offshore keys, plant results, minable resources.
ExpectedBlock(data, planet) ==
    [i \in DOMAIN planet.resources.offshore |->
        [key |-> planet.resources.offshore[i], category |-> "offshore"]]
    \o [i \in DOMAIN PlantResultNames(data, planet.resources.plants) |->
        [key |-> PlantResultNames(data, planet.resources.plants)[i], category |-> "plant"]]
    \o [i \in DOMAIN planet.resources.resource |->
        [key |-> planet.resources.resource[i], category |-> "resource"]]

RECURSIVE ExpectedEntries(_, _)
ExpectedEntries(data, planets) ==
    IF planets = <<>> THEN <<>>
    ELSE ExpectedBlock(data, Head(planets)) \o ExpectedEntries(data, Tail(planets))

CategoryCost(category) ==
    CASE category = "offshore" -> args.offshore_cost
      [] category = "plant"    -> args.farming_cost
      [] category = "resource" -> args.resource_cost

PlantResultCount(data, planet) == Len(PlantResultNames(data, planet.resources.plants))

DistinctPlantResultCount(data, planet) ==
    Cardinality(Range(PlantResultNames(data, planet.resources.plants)))

\* C6 (as amended): the length of setup_inputs' output is, summed over planets,
\* offshore-key count + plant-result count + resource-key count, where a result
\* is counted once per plant reference and result entry (with multiplicity, not
\* distinct names), and every entry's cost is the parameter of its category.
C6_LengthAndCosts ==
    Returned =>
        /\ ret[1].ok
        /\ Len(ret[1].value) =
              SumSeq([p \in DOMAIN FACTORIO_DATA.planets |->
                        Len(FACTORIO_DATA.planets[p].resources.offshore)
                        + PlantResultCount(FACTORIO_DATA, FACTORIO_DATA.planets[p])
                        + Len(FACTORIO_DATA.planets[p].resources.resource)])
        /\ Len(ret[1].value) = Len(ExpectedEntries(FACTORIO_DATA, FACTORIO_DATA.planets))
        /\ \A k \in DOMAIN ret[1].value :
              ret[1].value[k].cost =
                 CategoryCost(ExpectedEntries(FACTORIO_DATA, FACTORIO_DATA.planets)[k].category)

C6_Witness ==
    /\ Returned
    /\ ret[1].ok
    /\ Len(FACTORIO_DATA.planets) = 2
    /\ \E p \in DOMAIN FACTORIO_DATA.planets :
          DistinctPlantResultCount(FACTORIO_DATA, FACTORIO_DATA.planets[p])
             < PlantResultCount(FACTORIO_DATA, FACTORIO_DATA.planets[p])
    /\ Cardinality({args.resource_cost, args.farming_cost, args.offshore_cost}) = 3
    /\ \E k \in DOMAIN ret[1].value : ret[1].value[k].cost = args.farming_cost
    /\ \E k \in DOMAIN ret[1].value : ret[1].value[k].cost = args.offshore_cost
    /\ \E k \in DOMAIN ret[1].value : ret[1].value[k].cost = args.resource_cost

\* C6 as claimed: the length counts, per planet, the distinct plant results.
C6_DistinctResultCount ==
    Returned =>
        /\ ret[1].ok
        /\ Len(ret[1].value) =
              SumSeq([p \in DOMAIN FACTORIO_DATA.planets |->
                        Len(FACTORIO_DATA.planets[p].resources.offshore)
                        + DistinctPlantResultCount(FACTORIO_DATA, FACTORIO_DATA.planets[p])
                        + Len(FACTORIO_DATA.planets[p].resources.resource)])

ResourceOccurrences(data, key) ==
    UNION {{<<p, i>> : i \in {j \in DOMAIN data.planets[p].resources.resource :
                                 data.planets[p].resources.resource[j] = key}} :
              p \in DOMAIN data.planets}

\* C10: setup_inputs emits planet by planet in dataset order and, within a
\* planet, the offshore entries (resource FALSE), then the results of each plant
\* of the planet (resource FALSE), then the minable resources (resource TRUE),
\* all of quality normal; a resource key on several planets yields one entry per
\* planet; the dataset is not changed.
C10_StateOrder ==
    Returned =>
        /\ ret[1].ok
        /\ Len(ret[1].value) = Len(ExpectedEntries(FACTORIO_DATA, FACTORIO_DATA.planets))
        /\ \A k \in DOMAIN ret[1].value :
              LET expected == ExpectedEntries(FACTORIO_DATA, FACTORIO_DATA.planets)[k]
              IN /\ ret[1].value[k].key = expected.key
                 /\ ret[1].value[k].resource = (expected.category = "resource")
                 /\ ret[1].value[k].quality = "normal"
        /\ \A key \in {ret[1].value[k].key : k \in DOMAIN ret[1].value} :
              Cardinality({k \in DOMAIN ret[1].value :
                              ret[1].value[k].resource /\ ret[1].value[k].key = key})
                 = Cardinality(ResourceOccurrences(FACTORIO_DATA, key))

C10_EmissionOrder == [](C10_StateOrder) /\ [][FACTORIO_DATA' = FACTORIO_DATA]_vars

C10_Witness ==
    /\ Returned
    /\ ret[1].ok
    /\ Cardinality(ResourceOccurrences(FACTORIO_DATA, "coal")) = 2
    /\ Cardinality({k \in DOMAIN ret[1].value :
                       ret[1].value[k].resource /\ ret[1].value[k].key = "coal"}) = 2
    /\ \E k \in DOMAIN ret[1].value : ret[1].value[k].key = "wood" /\ ~ret[1].value[k].resource
    /\ \E k \in DOMAIN ret[1].value : ret[1].value[k].key = "water" /\ ~ret[1].value[k].resource

(***************************************************************************)
(* Properties of main (Spec, FairSpec).                                    *)
(***************************************************************************)
ItemEntry(tok, quality) ==
    [key |-> Str(KeySegment(tok)), quality |-> quality, resource |-> FALSE,
     cost |-> float(ValueSegment(tok)).value]

ResourceEntry(tok) ==
    [key |-> Str(KeySegment(tok)), quality |-> "normal", resource |-> TRUE,
     cost |-> float(ValueSegment(tok)).value]

\* The entries of the manual lists that were supplied, items first.
ManualEntries(a) ==
    (IF a.input_items = None THEN <<>>
     ELSE [i \in DOMAIN a.input_items[1] |-> ItemEntry(a.input_items[1][i], a.input_quality)])
    \o (IF a.input_resources = None THEN <<>>
        ELSE [i \in DOMAIN a.input_resources[1] |-> ResourceEntry(a.input_resources[1][i])])

C2_OverrideWins ==
    config # None =>
        /\ config[1].prod_module_quality =
              IF args.prod_module_quality # None THEN args.prod_module_quality[1]
              ELSE args.module_quality
        /\ config[1].quality_module_quality =
              IF args.quality_module_quality # None THEN args.quality_module_quality[1]
              ELSE args.module_quality
        /\ config[1].speed_module_quality =
              IF args.speed_module_quality # None THEN args.speed_module_quality[1]
              ELSE args.module_quality

ResearchRan == "parse_productivity_research_list" \in Range(trace)

\* A token with one separator whose item is not in the table.
NamesUnknownItem(tok) ==
    /\ Cardinality(SepPositions(tok)) = 1
    /\ ResearchItem(tok) \notin DOMAIN RESEARCH_PRODUCTIVITY_ITEM_RECIPE_MAP

FirstUnknown(items) ==
    CHOOSE i \in DOMAIN items :
        /\ NamesUnknownItem(items[i])
        /\ \A j \in 1..(i - 1) : ~NamesUnknownItem(items[j])

HasUnknownItem == args.productivity_research # None
                  /\ \E i \in DOMAIN args.productivity_research[1] :
                        NamesUnknownItem(args.productivity_research[1][i])

\* C4 as claimed: a research token naming an item absent from the table makes the
\* expansion fail with the unknown-research-key error, with no mapping returned
\* and no solver invocation.
C4_UnknownKeyError ==
    (ResearchRan /\ HasUnknownItem)
        => /\ error # None
           /\ error[1].exc = "KeyError"
           /\ productivity_research = None
           /\ solver_calls = 0

\* C4 (as amended): such a token makes the expansion fail, with no mapping,
\* no configuration and no solver invocation; the error is the unknown-key error
\* carrying the item when every token before the first such token is well-formed,
\* and otherwise the format error (ValueError) of an earlier malformed token.
C4_UnknownKeyAborts ==
    (ResearchRan /\ HasUnknownItem)
        => LET items == args.productivity_research[1]
               u     == FirstUnknown(items)
           IN /\ error # None
              /\ ~error[1].ok
              /\ productivity_research = None
              /\ config = None
              /\ solver_calls = 0
              /\ pc = "raised"
              /\ IF \A j \in 1..(u - 1) : WellFormedResearch(items[j])
                 THEN error[1].exc = "KeyError" /\ error[1].text = KeySegment(items[u])
                 ELSE error[1].exc = "ValueError"

C4_Witness ==
    /\ ResearchRan
    /\ HasUnknownItem
    /\ Len(args.productivity_research[1]) = 2
    /\ WellFormedResearch(args.productivity_research[1][1])
    /\ error # None
    /\ error[1].exc = "KeyError"

ParseErrors == {"ValueError", "KeyError"}

C8_Safety ==
    /\ solver_calls \in {0, 1}
    /\ solver_calls = 1 <=> pc = "done"
    /\ pc = "done" =>
          /\ error = None
          /\ config # None
          /\ solver_config = config
          /\ inputs # None
          /\ productivity_research # None
          /\ config[1].inputs = inputs[1]
          /\ config[1].productivity_research = productivity_research[1]
          /\ trace[Len(trace)] = "run_solver_from_command_line"
          /\ Cardinality({i \in DOMAIN trace : trace[i] = "run_solver_from_command_line"}) = 1
    /\ pc = "raised" =>
          /\ error # None
          /\ error[1].exc \in ParseErrors
          /\ config = None
          /\ solver_config = None
          /\ trace # <<>>
          /\ trace[Len(trace)] \in {"parse_input_list", "parse_resources_list",
                                    "parse_productivity_research_list"}
    /\ error # None => pc = "raised"
    /\ pc \in {"select_inputs", "expand_research", "assemble_config", "run_solver",
               "done", "raised"}
    /\ pc = "expand_research" => inputs # None
    /\ pc = "assemble_config" => inputs # None /\ productivity_research # None
    /\ pc = "run_solver" => config # None

\* Position of main: every step moves forward, so a run has at most four steps.
Rank(p) == CASE p = "select_inputs"   -> 0
             [] p = "expand_research" -> 1
             [] p = "assemble_config" -> 2
             [] p = "run_solver"      -> 3
             [] p = "done"            -> 4
             [] p = "raised"          -> 4

\* C8: every run of main ends either with the configuration assembled and handed
\* to the solver exactly once, or with a parsing error, no configuration and no
\* solver invocation; the solver is never invoked before input selection and
\* research expansion have completed, never twice, and an assembled
\* configuration is not changed afterwards.  Termination: every step advances
\* the position, and each position before the two final ones has what its step
\* reads.
C8_RunLifecycle ==
    /\ []C8_Safety
    /\ [][/\ config # None => config' = config
          /\ Rank(pc') > Rank(pc)
          /\ solver_calls' # solver_calls =>
                (config # None /\ inputs # None /\ productivity_research # None)]_vars

C8_Witness ==
    /\ pc = "done"
    /\ solver_calls = 1
    /\ solver_config = config
    /\ args.input_items # None
    /\ args.productivity_research # None

====
